---- MODULE Spec2Model ----
(***************************************************************************)
(* Motion (src/src/motion.ts) and MotionTimeline (src/unnamed/part_001).   *)
(*                                                                         *)
(* Every invocation of the async functions Motion.run() and                *)
(* MotionTimeline.play() is a call record in `calls`.  An action is one    *)
(* synchronous segment of the code: from a call (or from the resumption of *)
(* an await) up to the next await or to the return.  Between two segments  *)
(* the event loop is free, so the caller's code (setters, add, clear, new  *)
(* run()/play() calls) may run.                                            *)
(***************************************************************************)
EXTENDS Integers, Sequences, FiniteSets, TLC

\* motions   the fields of each Motion
\* queue     this.queue of each MotionTimeline
\* cleared   per MotionTimeline: the array its last clear() discarded, while
\*           no add() has followed that clear()
\* calls     the invocations of run() and play(), in the order they began
\* body      the clones in document.body, named by the run() that made them
\* head      the style elements in document.head, named likewise
\* apiCalls  the number of builder or timeline methods user code has called
VARIABLES motions, queue, cleared, calls, body, head, apiCalls

vars == <<motions, queue, cleared, calls, body, head, apiCalls>>

----------------------------------------------------------------------------
(* Bounds of the model *)

NumMotions == 2

NumTimelines == 2

MaxSteps == 2

MaxQueue == 2

MaxRuns == 1

MaxBuilderCalls == 4

MaxTimelineCalls == 5

MaxCalls == 4

MaxSynthSteps == 4

MaxReruns == 3

TimeStep == 500

----------------------------------------------------------------------------
(* Values *)

MotionIds == 1..NumMotions

TimelineIds == 1..NumTimelines

\* repeat "infinite" (type Repeat = number | "infinite")
Infinite == -1

DefaultDurationMs == 1000

DefaultDelayMs == 0

DefaultRepeatCount == 1

Durations == {500, DefaultDurationMs}

Delays == {DefaultDelayMs, 500}

Repeats == {DefaultRepeatCount, 2, Infinite}

Easings == {"linear", "ease"}

Directions == {"normal", "reverse"}

\* A hook field: undefined, or a callback that completes, throws
\* synchronously, or returns a promise that rejects.
NoHook == "none"

Hooks == {"ok", "throw", "reject"}

\* An optional value is a sequence of length 0 or 1 (`at?: number`).
Absent == <<>>

\* Step factories: `rel` adds the measured rect's left/top to the point
\* (README: point: [rect.left + 100, rect.top]); `throws` is a factory that
\* throws; `styles` is the optional object of CSS declarations, its entries
\* in insertion order (README: styles: { opacity: "0.5", scale: "0.8" }).
FactoryRect == [throws |-> FALSE, rel |-> TRUE, point |-> <<0, 0>>, at |-> Absent, styles |-> Absent]

FactoryFixed ==
    [throws |-> FALSE, rel |-> FALSE, point |-> <<7, 3>>, at |-> <<100>>,
     styles |-> <<<<[k |-> "opacity", v |-> "0.5"], [k |-> "scale", v |-> "0.8"]>>>>]

FactoryThrow == [throws |-> TRUE, rel |-> FALSE, point |-> <<0, 0>>, at |-> Absent, styles |-> Absent]

StepFactories == {FactoryRect, FactoryFixed, FactoryThrow}

\* More factories for the synthesis of paths and keyframes: distinct points,
\* with and without `at`
FactoryOffset == [throws |-> FALSE, rel |-> TRUE, point |-> <<5, 1>>, at |-> Absent, styles |-> <<<<[k |-> "opacity", v |-> "0"]>>>>]

FactoryAtStart == [throws |-> FALSE, rel |-> FALSE, point |-> <<2, 9>>, at |-> <<0>>, styles |-> Absent]

FactoryAtHalf == [throws |-> FALSE, rel |-> FALSE, point |-> <<4, 6>>, at |-> <<50>>, styles |-> <<<<>>>>]

SynthFactories == {FactoryRect, FactoryOffset, FactoryFixed, FactoryAtStart, FactoryAtHalf}

\* node.getBoundingClientRect() of the node of motion m
getBoundingClientRect(m) == [left |-> 10 * m, top |-> 20 * m, width |-> 30, height |-> 40]

NoError == [what |-> "none", src |-> 0]

\* Motion field initialisers, motion.ts 33-41
NewMotion == [factories |-> <<>>, durationMs |-> DefaultDurationMs, easingFn |-> "linear", delayMs |-> DefaultDelayMs, repeatCount |-> DefaultRepeatCount, directionVal |-> "normal", beforeCallback |-> NoHook, afterCallback |-> NoHook]

MotionEntry(m) == [kind |-> "motion", id |-> m]

TimelineEntry(t) == [kind |-> "timeline", id |-> t]

Entries == {MotionEntry(m) : m \in MotionIds} \cup {TimelineEntry(t) : t \in TimelineIds}

----------------------------------------------------------------------------
(* Path and keyframe synthesis (pure) *)

\* points[i] ?? points.at(-1), with the 0-based index i
PointOrLast(points, i) == IF i + 1 <= Len(points) THEN points[i + 1] ELSE points[Len(points)]

\* Mutant of CubicSegments: the points are consumed in groups of three
RECURSIVE CubicSegmentsStrideThree(_, _)
CubicSegmentsStrideThree(points, i) ==
    IF i < Len(points)
    THEN <<[op |-> "C", args |-> <<PointOrLast(points, i), PointOrLast(points, i + 1), PointOrLast(points, i + 2)>>]>> \o CubicSegmentsStrideThree(points, i + 3)
    ELSE <<>>

\* the loop of buildPath: for (let i = 0; i < points.length; i += 2)
RECURSIVE CubicSegments(_, _)
CubicSegments(points, i) ==
    IF i < Len(points)
    THEN <<[op |-> "C", args |-> <<PointOrLast(points, i), PointOrLast(points, i + 1), PointOrLast(points, i + 2)>>]>> \o CubicSegments(points, i + 2)
    ELSE <<>>

\* Motion.buildPath: the path as its list of commands
buildPath(points) ==
    IF Len(points) = 1
    THEN <<[op |-> "M", args |-> <<<<0, 0>>>>], [op |-> "L", args |-> <<points[1]>>]>>
    ELSE <<[op |-> "M", args |-> <<<<0, 0>>>>]>> \o CubicSegments(points, 0)

\* The numbers of line 155 are IEEE 754 doubles.  A double that is not NaN
\* and not negative is mant * 2^exp, mant being MantBits bits, the most
\* significant first and equal to 1 unless the value is 0.
MantBits == 53

NaN == [nan |-> TRUE, mant |-> <<>>, exp |-> 0]

Zeros(n) == [j \in 1..n |-> 0]

Zero == [nan |-> FALSE, mant |-> Zeros(MantBits), exp |-> 0]

\* bits without its leading zeros
StripZeros(bits) ==
    IF \A j \in 1..Len(bits) : bits[j] = 0
    THEN <<>>
    ELSE LET first == CHOOSE j \in 1..Len(bits) : bits[j] = 1 /\ \A k \in 1..(j - 1) : bits[k] = 0
         IN  SubSeq(bits, first, Len(bits))

\* the arithmetic on mantissas goes in digits of LimbBits bits
LimbBits == 15

\* the w bits of the natural number n < 2^w
WidthBits(n, w) == [j \in 1..w |-> (n \div 2^(w - j)) % 2]

\* the bits of the natural number n < 2^30, none for 0
IntBits(n) == StripZeros(WidthBits(n, 30))

\* the natural number with at most 30 bits `bits`
RECURSIVE BitsValue(_)
BitsValue(bits) ==
    IF Len(bits) = 0
    THEN 0
    ELSE IF Len(bits) = 1
         THEN bits[1]
         ELSE BitsValue(SubSeq(bits, 1, Len(bits) \div 2)) * 2^(Len(bits) - Len(bits) \div 2)
                + BitsValue(SubSeq(bits, Len(bits) \div 2 + 1, Len(bits)))

\* bits as digits of LimbBits bits, the most significant first
Limbs(bits) ==
    LET m == (Len(bits) + LimbBits - 1) \div LimbBits
        padded == Zeros(m * LimbBits - Len(bits)) \o bits
    IN  [j \in 1..m |-> BitsValue(SubSeq(padded, (j - 1) * LimbBits + 1, j * LimbBits))]

\* the bits of limbs[1..j] * k + carry
RECURSIVE MulAddFrom(_, _, _, _)
MulAddFrom(limbs, j, k, carry) ==
    IF j = 0
    THEN WidthBits(carry, 30)
    ELSE MulAddFrom(limbs, j - 1, k, (limbs[j] * k + carry) \div 2^LimbBits)
            \o WidthBits((limbs[j] * k + carry) % 2^LimbBits, LimbBits)

\* the bits of bits * k + c, for naturals k and c below 2^15
MulAdd(bits, k, c) == StripZeros(MulAddFrom(Limbs(bits), Len(Limbs(bits)), k, c))

\* long division by d < 2^16 of the remainder r followed by m zero digits,
\* with the quotient bits q so far
RECURSIVE DivFrom(_, _, _, _)
DivFrom(d, m, r, q) ==
    IF m = 0
    THEN [q |-> q, r |-> r]
    ELSE DivFrom(d, m - 1, (r * 2^LimbBits) % d, q \o WidthBits((r * 2^LimbBits) \div d, LimbBits))

\* the double nearest to bits * 2^exp (plus a nonzero part below the last
\* bit if sticky), ties to the even mantissa; bits starts with 1 or is empty
RoundDouble(bits, sticky, exp) ==
    IF bits = <<>>
    THEN Zero
    ELSE IF Len(bits) <= MantBits
         THEN [nan |-> FALSE, mant |-> bits \o Zeros(MantBits - Len(bits)), exp |-> exp - (MantBits - Len(bits))]
         ELSE LET keep == SubSeq(bits, 1, MantBits)
                  half == bits[MantBits + 1]
                  rest == sticky \/ \E j \in (MantBits + 2)..Len(bits) : bits[j] = 1
                  e == exp + Len(bits) - MantBits
                  up == MulAdd(keep, 1, 1)
              IN  IF half = 1 /\ (rest \/ keep[MantBits] = 1)
                  THEN IF Len(up) > MantBits
                       THEN [nan |-> FALSE, mant |-> SubSeq(up, 1, MantBits), exp |-> e + 1]
                       ELSE [nan |-> FALSE, mant |-> up, exp |-> e]
                  ELSE [nan |-> FALSE, mant |-> keep, exp |-> e]

\* i / d for naturals i and d: 0 / 0 is NaN (i / 0 with i > 0 is Infinity,
\* which no step index reaches: d = 0 only for the one step of index 0)
FloatDiv(i, d) ==
    IF d = 0
    THEN NaN
    ELSE LET m == (MantBits + 1 + Len(IntBits(d)) + LimbBits - 1) \div LimbBits
             res == DivFrom(d, m, i % d, IntBits(i \div d))
         IN  RoundDouble(StripZeros(res.q), res.r # 0, 0 - m * LimbBits)

\* x * k for a double x and a natural k that is itself a double
FloatTimes(x, k) ==
    IF x.nan THEN NaN ELSE RoundDouble(MulAdd(x.mant, k, 0), FALSE, x.exp)

\* the number literal n
FloatOf(n) == FloatDiv(n, 1)

\* (i / (steps.length - 1)) * 100, motion.ts 155
EvenPercent(i, n) == FloatTimes(FloatDiv(i, n - 1), 100)

\* Mutant of StepPercent: `||` in place of `??`, so that at: 0 counts as absent
StepPercentFalsyAt(step, i, n) ==
    IF step.at # Absent /\ step.at[1] # 0
    THEN FloatOf(step.at[1])
    ELSE EvenPercent(i, n)

\* step.at ?? (i / (steps.length - 1)) * 100, with the 0-based index i
StepPercent(step, i, n) ==
    IF step.at # Absent
    THEN FloatOf(step.at[1])
    ELSE EvenPercent(i, n)

\* Object.entries(styles).map(([k, v]) => `${k}: ${v};`).join(" "), from
\* entry j on
RECURSIVE JoinDeclarations(_, _)
JoinDeclarations(entries, j) ==
    IF j > Len(entries)
    THEN ""
    ELSE entries[j].k \o ": " \o entries[j].v \o ";" \o (IF j < Len(entries) THEN " " ELSE "") \o JoinDeclarations(entries, j + 1)

\* motion.ts 156-160: the declarations of step.styles, "" if it has none
StyleBlock(step) ==
    IF step.styles # Absent THEN JoinDeclarations(step.styles[1], 1) ELSE ""

\* Motion.buildKeyframes: one frame per step,
\* `${percent}% { offset-distance: ${percent}%; ${styleBlock} }`
buildKeyframes(steps) ==
    [j \in 1..Len(steps) |->
        [percent |-> StepPercent(steps[j], j - 1, Len(steps)),
         offsetDistance |-> StepPercent(steps[j], j - 1, Len(steps)),
         styleBlock |-> StyleBlock(steps[j])]]

\* fn(context) of a factory that does not throw
ApplyFactory(fn, rect) ==
    [at |-> fn.at, point |-> IF fn.rel THEN <<rect.left + fn.point[1], rect.top + fn.point[2]>> ELSE fn.point, styles |-> fn.styles]

\* steps.map(({ point }) => [point[0] - startX, point[1] - startY])
Normalize(steps) ==
    [j \in 1..Len(steps) |-> <<steps[j].point[1] - steps[1].point[1], steps[j].point[2] - steps[1].point[2]>>]

\* Mutant of createClone: the clone is placed at the measured rectangle
createCloneAtRect(rect, x, y, path, animation) ==
    [left |-> rect.left, top |-> rect.top, width |-> rect.width, height |-> rect.height, offsetPath |-> path, animation |-> animation]

\* Motion.createClone: the inline style of the clone
createClone(rect, x, y, path, animation) ==
    [left |-> x, top |-> y, width |-> rect.width, height |-> rect.height, offsetPath |-> path, animation |-> animation]

----------------------------------------------------------------------------
(* Call records *)

\* One invocation of run() or play().  parent/idx: the play() call that
\* awaits it and the position of its entry there (0: called by user code).
\* Fields of a run(): rect, steps, clone, keyframes, total (the setTimeout
\* delay), waited (time elapsed since setTimeout), and the record of what
\* the call did: log (its effects, in order) and the configuration values
\* it read (hookBefore, factoriesRead, cfgAtInsert, hookAfter), next to the
\* fields the Motion had when run() was called (cfgAtStart).
\* Fields of a play(): items (the array the for-of iterates), live (that
\* array is still this.queue), pos (the entry being awaited), child (its
\* call), afterClear (the value of `cleared` when play() was called),
\* lenAtStart (the length of the queue when play() was called), atClear (the
\* array and the position of the play() when clear() was called during it).
NewCall(kind, obj, parent, idx) ==
    [kind |-> kind, obj |-> obj, parent |-> parent, idx |-> idx, pc |-> "start", error |-> NoError,
     rect |-> getBoundingClientRect(1), steps |-> <<>>, clone |-> Absent, keyframes |-> <<>>, total |-> 0, waited |-> 0,
     log |-> <<>>, cfgAtStart |-> NewMotion, hookBefore |-> NoHook, factoriesRead |-> <<>>, cfgAtInsert |-> Absent, hookAfter |-> NoHook,
     items |-> <<>>, live |-> FALSE, pos |-> 0, child |-> 0, afterClear |-> Absent, lenAtStart |-> 0, atClear |-> Absent]

\* F(v), with v evaluated once however often F uses its argument
Once(v, F(_)) == CHOOSE out \in {F(x) : x \in {v}} : TRUE

\* The part of the state the code of run() and play() changes
World == [calls |-> calls, body |-> body, head |-> head, overflow |-> FALSE]

Settled(pc) == pc \in {"done", "failed"}

Fail(r, what, c) == [r EXCEPT !.pc = "failed", !.error = [what |-> what, src |-> c]]

Logged(r, events) == [r EXCEPT !.log = @ \o events]

----------------------------------------------------------------------------
(* Motion.run(), one operator per synchronous segment *)

\* motion.ts 131-133: the after-hook, then the return of run()
AfterStage(W, c) ==
    Once(W, LAMBDA w :
        LET r == [w.calls[c] EXCEPT !.hookAfter = motions[w.calls[c].obj].afterCallback]
            cb == r.hookAfter
        IN  IF cb = NoHook
            THEN [w EXCEPT !.calls[c] = [r EXCEPT !.pc = "done"]]
            ELSE IF cb = "throw"
                 THEN [w EXCEPT !.calls[c] = Fail(Logged(r, <<"after">>), "after", c)]
                 ELSE [w EXCEPT !.calls[c] = [Logged(r, <<"after">>) EXCEPT !.pc = "after"]])

\* Mutant of TotalMs: the delay is counted once, not once per repetition
TotalMsDelayOnce(durationMs, delayMs, repeatCount) == durationMs * repeatCount + delayMs

\* (this.durationMs + this.delayMs) * repeatCount, motion.ts 118-120
TotalMs(durationMs, delayMs, repeatCount) == (durationMs + delayMs) * repeatCount

\* Mutant of Waits: the "infinite" sentinel is not recognised
WaitsAlways(repeatCount) == TRUE

\* motion.ts 117: does run() wait and tear down?
Waits(repeatCount) == repeatCount # Infinite

\* motion.ts 98-129: from the first step's point to the setTimeout (finite
\* repeat) or straight on to the after-hook (infinite repeat)
InsertStage(W, c) ==
    Once(W, LAMBDA w :
        LET r == w.calls[c]
            cfg == motions[r.obj]
            startX == r.steps[1].point[1]
            startY == r.steps[1].point[2]
            pathString == buildPath(Normalize(r.steps))
            animation == [duration |-> cfg.durationMs, easing |-> cfg.easingFn, delay |-> cfg.delayMs, repeat |-> cfg.repeatCount, direction |-> cfg.directionVal]
            r1 == [Logged(r, <<"style", "clone", "insert">>) EXCEPT
                     !.keyframes = buildKeyframes(r.steps),
                     !.clone = <<createClone(r.rect, startX, startY, pathString, animation)>>,
                     !.cfgAtInsert = <<[durationMs |-> cfg.durationMs, delayMs |-> cfg.delayMs, repeatCount |-> cfg.repeatCount]>>]
            W1 == [w EXCEPT !.head = @ \cup {c}, !.body = @ \cup {c}]
        IN  IF Waits(cfg.repeatCount)
            THEN [W1 EXCEPT !.calls[c] = [Logged(r1, <<"timer">>) EXCEPT !.pc = "timer", !.total = TotalMs(cfg.durationMs, cfg.delayMs, cfg.repeatCount), !.waited = 0]]
            ELSE AfterStage([W1 EXCEPT !.calls[c] = r1], c))

\* index of the first factory that throws, 0 if none does
RECURSIVE FirstThrow(_, _)
FirstThrow(fs, j) ==
    IF j > Len(fs) THEN 0 ELSE IF fs[j].throws THEN j ELSE FirstThrow(fs, j + 1)

\* Mutant of FactoriesCalled: every factory is called before the failure surfaces
FactoriesCalledAll(fs) == Len(fs)

\* the number of factories this.factories.map((fn) => fn(context)) calls
FactoriesCalled(fs) == IF FirstThrow(fs, 1) = 0 THEN Len(fs) ELSE FirstThrow(fs, 1)

\* motion.ts 95-96: evaluate the factories; return if there is no step
FactoryStage(W, c) ==
    Once(W, LAMBDA w :
        LET r == w.calls[c]
            fs == motions[r.obj].factories
            called == FactoriesCalled(fs)
            r1 == [Logged(r, [j \in 1..called |-> "factory"]) EXCEPT !.factoriesRead = fs]
        IN  IF FirstThrow(fs, 1) # 0
            THEN [w EXCEPT !.calls[c] = Fail(r1, "factory", c)]
            ELSE LET r2 == [r1 EXCEPT !.steps = [j \in 1..Len(fs) |-> ApplyFactory(fs[j], r.rect)]]
                 IN  IF Len(r2.steps) = 0
                     THEN [w EXCEPT !.calls[c] = [r2 EXCEPT !.pc = "done", !.hookAfter = motions[r.obj].afterCallback]]
                     ELSE InsertStage([w EXCEPT !.calls[c] = r2], c))

\* motion.ts 87-93: the call of run(), up to the await of the before-hook
StartRun(W, m, parent, idx) ==
    Once(W, LAMBDA w :
        IF Len(w.calls) >= MaxCalls
        THEN [w EXCEPT !.overflow = TRUE]
        ELSE LET c == Len(w.calls) + 1
                 cb == motions[m].beforeCallback
                 r == [Logged(NewCall("run", m, parent, idx), <<"measure">>) EXCEPT !.rect = getBoundingClientRect(m), !.cfgAtStart = motions[m], !.hookBefore = cb]
                 W1 == [w EXCEPT !.calls = Append(@, r)]
             IN  IF cb = NoHook
                 THEN FactoryStage(W1, c)
                 ELSE IF cb = "throw"
                      THEN [W1 EXCEPT !.calls[c] = Fail(Logged(r, <<"before">>), "before", c)]
                      ELSE [W1 EXCEPT !.calls[c] = [Logged(r, <<"before">>) EXCEPT !.pc = "before"]])

\* Mutant of ResumeBefore: the rejection of the before-hook is dropped
ResumeBeforeIgnoringRejection(W, c) == FactoryStage(W, c)

\* motion.ts 92: the await of the before-hook resumes
ResumeBefore(W, c) ==
    IF W.calls[c].hookBefore = "reject"
    THEN [W EXCEPT !.calls[c] = Fail(@, "before", c)]
    ELSE FactoryStage(W, c)

\* Mutant of TimerStage: the timer callback removes the clone only
TimerStageCloneOnly(W, c) ==
    [W EXCEPT !.body = @ \ {c}, !.calls[c] = [Logged(@, <<"removeClone">>) EXCEPT !.pc = "resolved"]]

\* Mutant of TimerStage: the clone and the style element are kept in fields
\* of the Motion, so the callback removes those of its latest run
TimerStageSharedClone(W, c) ==
    LET mine == {k \in 1..Len(W.calls) : W.calls[k].kind = "run" /\ W.calls[k].obj = W.calls[c].obj /\ W.calls[k].cfgAtInsert # Absent}
        last == CHOOSE k \in mine : \A j \in mine : j <= k
    IN  [W EXCEPT !.body = @ \ {last}, !.head = @ \ {last}, !.calls[c] = [Logged(@, <<"removeClone", "removeStyle">>) EXCEPT !.pc = "resolved"]]

\* motion.ts 123-127: the timer callback removes the clone and the style
\* element and resolves the promise that run() awaits; run() has not resumed
TimerStage(W, c) ==
    [W EXCEPT !.body = @ \ {c}, !.head = @ \ {c}, !.calls[c] = [Logged(@, <<"removeClone", "removeStyle">>) EXCEPT !.pc = "resolved"]]

\* motion.ts 122: the await of the timer's promise resumes, in a later
\* microtask, and run() goes on to the after-hook
ResumeTimer(W, c) == AfterStage(W, c)

\* motion.ts 132: the await of the after-hook resumes
ResumeAfter(W, c) ==
    IF W.calls[c].hookAfter = "reject"
    THEN [W EXCEPT !.calls[c] = Fail(@, "after", c)]
    ELSE [W EXCEPT !.calls[c].pc = "done"]

----------------------------------------------------------------------------
(* MotionTimeline.play() *)

RECURSIVE StartPlay(_, _, _, _), PlayLoop(_, _)

\* Mutant of PlayLoop: a nested timeline is started but not awaited
PlayLoopNestedNotAwaited(W, c) ==
    Once(W, LAMBDA w :
        LET r == w.calls[c]
        IN  IF r.pos > Len(r.items)
            THEN [w EXCEPT !.calls[c].pc = "done"]
            ELSE LET entry == r.items[r.pos]
                 IN  IF entry.kind = "timeline"
                     THEN LET W1 == StartPlay(w, entry.id, c, r.pos)
                          IN  IF W1.overflow THEN W1 ELSE PlayLoop([W1 EXCEPT !.calls[c].pos = @ + 1], c)
                     ELSE LET W1 == StartRun(w, entry.id, c, r.pos)
                          IN  IF W1.overflow
                              THEN W1
                              ELSE [W1 EXCEPT !.calls[c].pc = "await", !.calls[c].child = Len(w.calls) + 1])

\* part_001 17-23: the for-of loop from its head up to the next await
PlayLoop(W, c) ==
    Once(W, LAMBDA w :
        LET r == w.calls[c]
        IN  IF r.pos > Len(r.items)
            THEN [w EXCEPT !.calls[c].pc = "done"]
            ELSE LET entry == r.items[r.pos]
                 IN  Once(IF entry.kind = "timeline"
                          THEN StartPlay(w, entry.id, c, r.pos)
                          ELSE StartRun(w, entry.id, c, r.pos),
                          LAMBDA w1 :
                              IF w1.overflow
                              THEN w1
                              ELSE [w1 EXCEPT !.calls[c].pc = "await", !.calls[c].child = Len(w.calls) + 1]))

\* part_001 16-17: the call of play()
StartPlay(W, t, parent, idx) ==
    Once(W, LAMBDA w :
        IF Len(w.calls) >= MaxCalls
        THEN [w EXCEPT !.overflow = TRUE]
        ELSE LET c == Len(w.calls) + 1
                 r == [NewCall("play", t, parent, idx) EXCEPT !.items = queue[t], !.live = TRUE, !.pos = 1, !.afterClear = cleared[t], !.lenAtStart = Len(queue[t])]
             IN  PlayLoop([w EXCEPT !.calls = Append(@, r)], c))

\* Mutant of ResumePlay: the failure of an entry is swallowed
ResumePlaySwallowingFailure(W, c) == PlayLoop([W EXCEPT !.calls[c].pos = @ + 1], c)

\* Mutant of ResumePlay: the loop does not move on to the next entry
ResumePlayRepeatingEntry(W, c) ==
    Once(W, LAMBDA w :
        LET r == w.calls[c]
            ch == w.calls[r.child]
        IN  IF ch.pc = "failed"
            THEN [w EXCEPT !.calls[c].pc = "failed", !.calls[c].error = ch.error]
            ELSE PlayLoop(w, c))

\* part_001 19/21: the await of the entry resumes
ResumePlay(W, c) ==
    Once(W, LAMBDA w :
        LET r == w.calls[c]
            ch == w.calls[r.child]
        IN  IF ch.pc = "failed"
            THEN [w EXCEPT !.calls[c].pc = "failed", !.calls[c].error = ch.error]
            ELSE PlayLoop([w EXCEPT !.calls[c].pos = @ + 1], c))

----------------------------------------------------------------------------
(* Actions *)

Commit(W) ==
    \E w \in {W} :
        /\ ~w.overflow
        /\ calls' = w.calls
        /\ body' = w.body
        /\ head' = w.head

\* one more call of a builder method of a Motion
Builder ==
    /\ apiCalls < MaxBuilderCalls
    /\ apiCalls' = apiCalls + 1

\* Motion.addStep, motion.ts 47-50
AddStep(m, factory) ==
    /\ Len(motions[m].factories) < MaxSteps
    /\ motions' = [motions EXCEPT ![m].factories = Append(@, factory)]
    /\ Builder
    /\ UNCHANGED <<queue, cleared, calls, body, head>>

\* Motion.duration, motion.ts 52-55
Duration(m, ms) ==
    /\ motions' = [motions EXCEPT ![m].durationMs = ms]
    /\ Builder
    /\ UNCHANGED <<queue, cleared, calls, body, head>>

\* Motion.easing, motion.ts 57-60
Easing(m, easing) ==
    /\ motions' = [motions EXCEPT ![m].easingFn = easing]
    /\ Builder
    /\ UNCHANGED <<queue, cleared, calls, body, head>>

\* Motion.delay, motion.ts 62-65
Delay(m, ms) ==
    /\ motions' = [motions EXCEPT ![m].delayMs = ms]
    /\ Builder
    /\ UNCHANGED <<queue, cleared, calls, body, head>>

\* Motion.repeat, motion.ts 67-70
Repeat(m, n) ==
    /\ motions' = [motions EXCEPT ![m].repeatCount = n]
    /\ Builder
    /\ UNCHANGED <<queue, cleared, calls, body, head>>

\* Motion.direction, motion.ts 72-75
Direction(m, value) ==
    /\ motions' = [motions EXCEPT ![m].directionVal = value]
    /\ Builder
    /\ UNCHANGED <<queue, cleared, calls, body, head>>

\* Motion.before, motion.ts 77-80
Before(m, cb) ==
    /\ motions' = [motions EXCEPT ![m].beforeCallback = cb]
    /\ Builder
    /\ UNCHANGED <<queue, cleared, calls, body, head>>

\* Motion.after, motion.ts 82-85
After(m, cb) ==
    /\ motions' = [motions EXCEPT ![m].afterCallback = cb]
    /\ Builder
    /\ UNCHANGED <<queue, cleared, calls, body, head>>

\* user code calls motion.run()
Run(m) ==
    /\ Len(calls) < MaxRuns
    /\ Commit(StartRun(World, m, 0, 0))
    /\ UNCHANGED <<motions, queue, cleared, apiCalls>>

\* user code calls motion.run() again, whether or not earlier calls have settled
Rerun(m) ==
    /\ Len(calls) < MaxReruns
    /\ Commit(StartRun(World, m, 0, 0))
    /\ UNCHANGED <<motions, queue, cleared, apiCalls>>

\* the promise of the before-hook settles and run() resumes
BeforeSettles(c) ==
    /\ calls[c].kind = "run"
    /\ calls[c].pc = "before"
    /\ Commit(ResumeBefore(World, c))
    /\ UNCHANGED <<motions, queue, cleared, apiCalls>>

\* the timer of setTimeout(..., total) fires, not before total has elapsed
TimerFires(c) ==
    /\ calls[c].kind = "run"
    /\ calls[c].pc = "timer"
    /\ calls[c].waited >= calls[c].total
    /\ Commit(TimerStage(World, c))
    /\ UNCHANGED <<motions, queue, cleared, apiCalls>>

\* run() resumes after the promise that the timer callback resolved
TimerSettles(c) ==
    /\ calls[c].kind = "run"
    /\ calls[c].pc = "resolved"
    /\ Commit(ResumeTimer(World, c))
    /\ UNCHANGED <<motions, queue, cleared, apiCalls>>

\* the promise of the after-hook settles and run() resumes
AfterSettles(c) ==
    /\ calls[c].kind = "run"
    /\ calls[c].pc = "after"
    /\ Commit(ResumeAfter(World, c))
    /\ UNCHANGED <<motions, queue, cleared, apiCalls>>

\* time passes: every pending timer has waited TimeStep longer
Tick ==
    /\ \E c \in 1..Len(calls) : calls[c].pc = "timer" /\ calls[c].waited < calls[c].total
    /\ calls' = [c \in 1..Len(calls) |->
                    IF calls[c].pc = "timer" /\ calls[c].waited < calls[c].total
                    THEN [calls[c] EXCEPT !.waited = @ + TimeStep]
                    ELSE calls[c]]
    /\ UNCHANGED <<motions, queue, cleared, body, head, apiCalls>>

\* one more call of a method of a MotionTimeline
TimelineCall ==
    /\ apiCalls < MaxTimelineCalls
    /\ apiCalls' = apiCalls + 1

\* Mutant of IteratedAfterAdd: play() iterates a copy of the queue
IteratedAfterAddSnapshot(items, entry) == items

\* the array a play() in flight iterates, after a push onto this.queue: the
\* same array, one entry longer
IteratedAfterAdd(items, entry) == Append(items, entry)

\* MotionTimeline.add, part_001 6-9: push onto the array that is this.queue,
\* which a play() in flight may be iterating
Add(t, entry) ==
    /\ Len(queue[t]) < MaxQueue
    /\ queue' = [queue EXCEPT ![t] = Append(@, entry)]
    /\ cleared' = [cleared EXCEPT ![t] = Absent]
    /\ calls' = [c \in 1..Len(calls) |->
                    IF calls[c].kind = "play" /\ calls[c].obj = t /\ calls[c].live /\ calls[c].pc = "await"
                    THEN [calls[c] EXCEPT !.items = IteratedAfterAdd(@, entry)]
                    ELSE calls[c]]
    /\ TimelineCall
    /\ UNCHANGED <<motions, body, head>>

\* Mutant of ClearedQueue: clear() leaves the queue as it is
ClearedQueueKept(q) == q

\* the array this.queue is after clear()
ClearedQueue(q) == <<>>

\* Mutant of IteratedAfterClear: clear() empties the array in place
IteratedAfterClearEmptied(items) == <<>>

\* the array a play() in flight iterates, after clear(): the old array,
\* which the assignment of a new one to this.queue leaves as it was
IteratedAfterClear(items) == items

\* MotionTimeline.clear, part_001 11-14: this.queue becomes a new array; a
\* play() in flight keeps iterating the old one
Clear(t) ==
    /\ queue' = [queue EXCEPT ![t] = ClearedQueue(@)]
    /\ cleared' = [cleared EXCEPT ![t] = <<queue[t]>>]
    /\ calls' = [c \in 1..Len(calls) |->
                    IF calls[c].kind = "play" /\ calls[c].obj = t /\ calls[c].pc = "await" /\ calls[c].live
                    THEN [calls[c] EXCEPT !.live = FALSE, !.items = IteratedAfterClear(@),
                                          !.atClear = <<[items |-> calls[c].items, pos |-> calls[c].pos]>>]
                    ELSE calls[c]]
    /\ TimelineCall
    /\ UNCHANGED <<motions, body, head>>

\* user code calls timeline.play()
Play(t) ==
    /\ Commit(StartPlay(World, t, 0, 0))
    /\ TimelineCall
    /\ UNCHANGED <<motions, queue, cleared>>

\* Mutant of EntrySettles: play() goes on without awaiting the entry
EntrySettlesNotAwaited(c) ==
    /\ calls[c].kind = "play"
    /\ calls[c].pc = "await"
    /\ Commit(ResumePlay(World, c))
    /\ UNCHANGED <<motions, queue, cleared, apiCalls>>

\* the awaited entry has settled and play() resumes
EntrySettles(c) ==
    /\ calls[c].kind = "play"
    /\ calls[c].pc = "await"
    /\ Settled(calls[calls[c].child].pc)
    /\ Commit(ResumePlay(World, c))
    /\ UNCHANGED <<motions, queue, cleared, apiCalls>>

----------------------------------------------------------------------------
(* Specifications *)

\* One Motion driven through its builder and run()
SoloMotion == CHOOSE m \in MotionIds : \A k \in MotionIds : m <= k

InitMotion ==
    /\ motions = [m \in MotionIds |-> NewMotion]
    /\ queue = [t \in TimelineIds |-> <<>>]
    /\ cleared = [t \in TimelineIds |-> Absent]
    /\ calls = <<>>
    /\ body = {}
    /\ head = {}
    /\ apiCalls = 0

NextMotion ==
    \/ \E f \in StepFactories : AddStep(SoloMotion, f)
    \/ \E ms \in Durations : Duration(SoloMotion, ms)
    \/ \E e \in Easings : Easing(SoloMotion, e)
    \/ \E ms \in Delays : Delay(SoloMotion, ms)
    \/ \E n \in Repeats : Repeat(SoloMotion, n)
    \/ \E d \in Directions : Direction(SoloMotion, d)
    \/ \E cb \in Hooks : Before(SoloMotion, cb)
    \/ \E cb \in Hooks : After(SoloMotion, cb)
    \/ Run(SoloMotion)
    \/ \E c \in 1..Len(calls) : BeforeSettles(c)
    \/ \E c \in 1..Len(calls) : TimerFires(c)
    \/ \E c \in 1..Len(calls) : TimerSettles(c)
    \/ \E c \in 1..Len(calls) : AfterSettles(c)
    \/ Tick

SpecMotion == InitMotion /\ [][NextMotion]_vars

\* Timelines over Motions that the builder has configured
BuiltMotions ==
    { [NewMotion EXCEPT !.factories = <<FactoryRect>>, !.afterCallback = "ok"],
      [NewMotion EXCEPT !.factories = <<FactoryRect>>, !.repeatCount = Infinite],
      [NewMotion EXCEPT !.factories = <<FactoryThrow>>, !.beforeCallback = "ok"],
      [NewMotion EXCEPT !.beforeCallback = "throw"] }

Init ==
    /\ motions \in [MotionIds -> BuiltMotions]
    /\ queue = [t \in TimelineIds |-> <<>>]
    /\ cleared = [t \in TimelineIds |-> Absent]
    /\ calls = <<>>
    /\ body = {}
    /\ head = {}
    /\ apiCalls = 0

Next ==
    \/ \E t \in TimelineIds, e \in Entries : Add(t, e)
    \/ \E t \in TimelineIds : Clear(t)
    \/ \E t \in TimelineIds : Play(t)
    \/ \E c \in 1..Len(calls) : EntrySettles(c)
    \/ \E c \in 1..Len(calls) : BeforeSettles(c)
    \/ \E c \in 1..Len(calls) : TimerFires(c)
    \/ \E c \in 1..Len(calls) : TimerSettles(c)
    \/ \E c \in 1..Len(calls) : AfterSettles(c)
    \/ Tick

Spec == Init /\ [][Next]_vars

\* run() on Motions whose step factories are drawn from SynthFactories: the
\* inputs of buildPath, buildKeyframes and createClone
StepLists == UNION {[1..n -> SynthFactories] : n \in 0..MaxSynthSteps}

InitSynth ==
    /\ \E fs \in StepLists :
          motions = [m \in MotionIds |-> IF m = SoloMotion THEN [NewMotion EXCEPT !.factories = fs] ELSE NewMotion]
    /\ queue = [t \in TimelineIds |-> <<>>]
    /\ cleared = [t \in TimelineIds |-> Absent]
    /\ calls = <<>>
    /\ body = {}
    /\ head = {}
    /\ apiCalls = 0

NextSynth ==
    \/ Run(SoloMotion)
    \/ \E c \in 1..Len(calls) : TimerFires(c)
    \/ \E c \in 1..Len(calls) : TimerSettles(c)
    \/ Tick

SpecSynth == InitSynth /\ [][NextSynth]_vars

\* run() called several times on one configured Motion
RerunMotions ==
    { [NewMotion EXCEPT !.factories = <<FactoryRect>>, !.afterCallback = "ok"],
      [NewMotion EXCEPT !.factories = <<FactoryRect>>, !.durationMs = 500, !.beforeCallback = "ok"],
      [NewMotion EXCEPT !.factories = <<FactoryRect, FactoryFixed>>, !.delayMs = 500, !.repeatCount = 2],
      [NewMotion EXCEPT !.factories = <<FactoryFixed>>, !.repeatCount = Infinite, !.afterCallback = "ok"] }

InitRuns ==
    /\ \E cfg \in RerunMotions :
          motions = [m \in MotionIds |-> IF m = SoloMotion THEN cfg ELSE NewMotion]
    /\ queue = [t \in TimelineIds |-> <<>>]
    /\ cleared = [t \in TimelineIds |-> Absent]
    /\ calls = <<>>
    /\ body = {}
    /\ head = {}
    /\ apiCalls = 0

NextRuns ==
    \/ Rerun(SoloMotion)
    \/ \E c \in 1..Len(calls) : BeforeSettles(c)
    \/ \E c \in 1..Len(calls) : TimerFires(c)
    \/ \E c \in 1..Len(calls) : TimerSettles(c)
    \/ \E c \in 1..Len(calls) : AfterSettles(c)
    \/ Tick

SpecRuns == InitRuns /\ [][NextRuns]_vars

\* Timelines without cycles, over Motions whose hooks complete, that are
\* not extended while a play() is in flight; every suspended call resumes
FiniteMotion == [NewMotion EXCEPT !.factories = <<FactoryRect>>, !.beforeCallback = "ok", !.afterCallback = "ok"]

InfiniteMotions ==
    { [NewMotion EXCEPT !.factories = <<FactoryRect>>, !.repeatCount = Infinite, !.afterCallback = "ok"],
      [NewMotion EXCEPT !.factories = <<FactoryFixed>>, !.repeatCount = Infinite] }

\* timeline u is an entry of timeline t, or of a timeline nested in t
RECURSIVE Nests(_, _, _)
Nests(t, u, depth) ==
    \E i \in 1..Len(queue[t]) :
        /\ queue[t][i].kind = "timeline"
        /\ \/ queue[t][i].id = u
           \/ depth > 0 /\ Nests(queue[t][i].id, u, depth - 1)

\* the number of calls a play() of timeline t makes, itself included
RECURSIVE TreeSize(_), EntriesSize(_, _)
EntriesSize(q, i) ==
    IF i > Len(q)
    THEN 0
    ELSE (IF q[i].kind = "timeline" THEN TreeSize(q[i].id) ELSE 1) + EntriesSize(q, i + 1)

TreeSize(t) == 1 + EntriesSize(queue[t], 1)

\* no run() and no play() is in flight
Idle == \A c \in 1..Len(calls) : Settled(calls[c].pc)

\* add() while no play() is in flight, of an entry that closes no cycle
AddAcyclic(t, entry) ==
    /\ Idle
    /\ entry.kind = "timeline" => (entry.id # t /\ ~Nests(entry.id, t, NumTimelines))
    /\ Add(t, entry)

\* clear() while a play() is in flight
ClearInFlight(t) ==
    /\ ~Idle
    /\ Clear(t)

\* play() while no play() is in flight
PlayIdle(t) ==
    /\ Idle
    /\ Len(calls) + TreeSize(t) <= MaxCalls
    /\ Play(t)

InitFair ==
    /\ \E cfg \in InfiniteMotions :
          motions = [m \in MotionIds |-> IF m = SoloMotion THEN FiniteMotion ELSE cfg]
    /\ queue = [t \in TimelineIds |-> <<>>]
    /\ cleared = [t \in TimelineIds |-> Absent]
    /\ calls = <<>>
    /\ body = {}
    /\ head = {}
    /\ apiCalls = 0

NextFair ==
    \/ \E t \in TimelineIds, e \in Entries : AddAcyclic(t, e)
    \/ \E t \in TimelineIds : ClearInFlight(t)
    \/ \E t \in TimelineIds : PlayIdle(t)
    \/ \E c \in 1..Len(calls) : EntrySettles(c)
    \/ \E c \in 1..Len(calls) : BeforeSettles(c)
    \/ \E c \in 1..Len(calls) : TimerFires(c)
    \/ \E c \in 1..Len(calls) : TimerSettles(c)
    \/ \E c \in 1..Len(calls) : AfterSettles(c)
    \/ Tick

\* what the event loop does on its own: it runs a continuation that is
\* ready, fires a timer that is due, or lets time pass
EventLoop ==
    \/ \E c \in 1..Len(calls) : EntrySettles(c)
    \/ \E c \in 1..Len(calls) : BeforeSettles(c)
    \/ \E c \in 1..Len(calls) : TimerFires(c)
    \/ \E c \in 1..Len(calls) : TimerSettles(c)
    \/ \E c \in 1..Len(calls) : AfterSettles(c)
    \/ Tick

\* the event loop does not stop while it has something to do
SpecFair == InitFair /\ [][NextFair]_vars /\ WF_vars(EventLoop)

----------------------------------------------------------------------------
(* Properties *)

CallIds == 1..Len(calls)

RunIds == {c \in CallIds : calls[c].kind = "run"}

PlayIds == {c \in CallIds : calls[c].kind = "play"}

Count(log, e) == Cardinality({j \in 1..Len(log) : log[j] = e})

Has(log, e) == \E j \in 1..Len(log) : log[j] = e

\* e1 occurs in the log and every e2 in it comes later
Precedes(log, e1, e2) ==
    \E j \in 1..Len(log) : log[j] = e1 /\ \A k \in 1..Len(log) : log[k] = e2 => j < k

\* the run inserted a clone under a finite / an infinite repeat count
FiniteRun(c) == calls[c].cfgAtInsert # Absent /\ calls[c].cfgAtInsert[1].repeatCount # Infinite

InfiniteRun(c) == calls[c].cfgAtInsert # Absent /\ calls[c].cfgAtInsert[1].repeatCount = Infinite

\* C3: a run() of a Motion with zero step factories that resolves has made no
\* clone and no style rule and has invoked the before-hook and then the
\* after-hook, each if set.
C3_EmptyRunCallsBothHooks ==
    \A c \in RunIds :
        (calls[c].pc = "done" /\ calls[c].factoriesRead = <<>>) =>
            /\ c \notin body /\ c \notin head
            /\ ~Has(calls[c].log, "style") /\ ~Has(calls[c].log, "clone")
            /\ calls[c].hookBefore # NoHook => Has(calls[c].log, "before")
            /\ calls[c].hookAfter # NoHook => Has(calls[c].log, "after")
            /\ (calls[c].hookBefore # NoHook /\ calls[c].hookAfter # NoHook) => Precedes(calls[c].log, "before", "after")

\* C4: a run() that inserted its clone under a finite repeat count R, duration
\* D and delay L has scheduled, after the insertion, a wait of exactly
\* (D + L) * R, and neither invokes its after-hook nor settles before that
\* much time has elapsed since.
C4_WaitsDurationPlusDelayTimesRepeat ==
    \A c \in RunIds :
        FiniteRun(c) =>
            LET cfg == calls[c].cfgAtInsert[1]
                need == (cfg.durationMs + cfg.delayMs) * cfg.repeatCount
            IN  /\ calls[c].total = need
                /\ Precedes(calls[c].log, "insert", "timer")
                /\ (calls[c].pc # "timer" \/ Has(calls[c].log, "after")) => calls[c].waited >= need

C4_Witness ==
    \E c \in RunIds :
        /\ FiniteRun(c)
        /\ calls[c].cfgAtInsert[1].delayMs > 0
        /\ calls[c].cfgAtInsert[1].repeatCount > 1
        /\ calls[c].pc = "done"

\* C5: the clone of a run is in the render tree exactly when its style rule
\* is in the style registry; a finite-repeat run removes both once, in one
\* step, when the wait has elapsed and before the after-hook is invoked.
C5_CloneAndStyleTornDownTogether ==
    \A c \in RunIds :
        /\ c \in body <=> c \in head
        /\ FiniteRun(c) =>
            /\ Count(calls[c].log, "removeClone") = Count(calls[c].log, "removeStyle")
            /\ calls[c].pc = "timer" => (c \in body /\ ~Has(calls[c].log, "removeClone"))
            /\ calls[c].pc # "timer" =>
                /\ c \notin body /\ c \notin head
                /\ Count(calls[c].log, "removeClone") = 1
                /\ calls[c].waited >= calls[c].total
                /\ Precedes(calls[c].log, "timer", "removeClone")
                /\ Has(calls[c].log, "after") => Precedes(calls[c].log, "removeStyle", "after")

C5_Witness ==
    \E c \in RunIds :
        /\ FiniteRun(c)
        /\ calls[c].pc = "after"
        /\ Count(calls[c].log, "removeStyle") = 1
        /\ c \notin head

\* C6: a run() that inserted its clone under repeat "infinite" sets no timer
\* and goes straight from the insertion to the after-hook and its return; its
\* clone and style rule stay in place from then on.
C6_InfiniteRunLeavesCloneInPlace ==
    \A c \in RunIds :
        InfiniteRun(c) =>
            /\ ~Has(calls[c].log, "timer")
            /\ calls[c].pc \in {"after", "done", "failed"}
            /\ calls[c].waited = 0
            /\ calls[c].hookAfter = NoHook => calls[c].pc = "done"
            /\ calls[c].hookAfter # NoHook => \E j \in 1..Len(calls[c].log) - 1 : calls[c].log[j] = "insert" /\ calls[c].log[j + 1] = "after"
            /\ c \in body /\ c \in head
            /\ ~Has(calls[c].log, "removeClone") /\ ~Has(calls[c].log, "removeStyle")

C6_Witness ==
    \E c \in RunIds :
        /\ InfiniteRun(c)
        /\ calls[c].hookAfter = "ok"
        /\ calls[c].pc = "done"
        /\ c \in body /\ c \in head

\* C7: a run() whose before-hook throws or rejects fails with that failure,
\* having invoked no step factory and no after-hook and having created no
\* clone and no style rule.
C7_FailedBeforeHookAbortsRun ==
    \A c \in RunIds :
        calls[c].hookBefore \in {"throw", "reject"} =>
            /\ calls[c].pc \in {"before", "failed"}
            /\ calls[c].hookBefore = "throw" => calls[c].pc = "failed"
            /\ calls[c].pc = "failed" => calls[c].error = [what |-> "before", src |-> c]
            /\ calls[c].log = <<"measure", "before">>
            /\ calls[c].clone = Absent
            /\ c \notin body /\ c \notin head

C7_Witness ==
    \E c \in RunIds :
        /\ calls[c].hookBefore = "reject"
        /\ calls[c].pc = "failed"
        /\ motions[calls[c].obj].factories # <<>>
        /\ motions[calls[c].obj].afterCallback # NoHook

\* the first throwing factory among those a run() read, 0 if none throws
ThrowingFactory(c) ==
    IF \E j \in 1..Len(calls[c].factoriesRead) : calls[c].factoriesRead[j].throws
    THEN CHOOSE j \in 1..Len(calls[c].factoriesRead) :
            /\ calls[c].factoriesRead[j].throws
            /\ \A k \in 1..(j - 1) : ~calls[c].factoriesRead[k].throws
    ELSE 0

\* C8: a run() one of whose step factories throws fails with that failure;
\* the factories after the throwing one are not invoked, nor is the
\* after-hook, and no style rule and no clone is created.
C8_ThrowingFactoryAbortsRun ==
    \A c \in RunIds :
        ThrowingFactory(c) # 0 =>
            /\ calls[c].pc = "failed"
            /\ calls[c].error = [what |-> "factory", src |-> c]
            /\ Count(calls[c].log, "factory") = ThrowingFactory(c)
            /\ ~Has(calls[c].log, "style") /\ ~Has(calls[c].log, "clone") /\ ~Has(calls[c].log, "insert")
            /\ ~Has(calls[c].log, "after")
            /\ calls[c].clone = Absent
            /\ c \notin body /\ c \notin head

C8_Witness ==
    \E c \in RunIds :
        /\ ThrowingFactory(c) # 0
        /\ ThrowingFactory(c) < Len(calls[c].factoriesRead)
        /\ calls[c].pc = "failed"
        /\ motions[calls[c].obj].afterCallback # NoHook

\* the call of user code from which call c descends
RECURSIVE Root(_)
Root(c) == IF calls[c].parent = 0 THEN c ELSE Root(calls[c].parent)

\* the calls that a play() made for its entries
Children(p) == {c \in CallIds : calls[c].parent = p}

\* C1: inside the call tree of one play(), a Motion entry B that directly
\* follows a Motion entry A of the same queue has not begun (has not
\* measured) unless A's run() has resolved, after-hook included; so at most
\* one run() of the tree is in progress at any time.
C1_MotionEntriesRunOneAfterAnother ==
    /\ \A a \in RunIds, b \in RunIds :
          (calls[a].parent # 0 /\ calls[b].parent = calls[a].parent /\ calls[b].idx = calls[a].idx + 1) =>
              /\ calls[a].pc = "done"
              /\ a < b
    /\ \A p \in PlayIds :
          calls[p].parent = 0 =>
              Cardinality({c \in RunIds : Root(c) = p /\ ~Settled(calls[c].pc)}) <= 1

C1_Witness ==
    \E a \in RunIds, b \in RunIds :
        /\ calls[a].parent # 0
        /\ calls[b].parent = calls[a].parent
        /\ calls[b].idx = calls[a].idx + 1
        /\ Has(calls[a].log, "timer")
        /\ Has(calls[a].log, "after")
        /\ Has(calls[b].log, "measure")

\* play() call n has run every entry of its array to completion, nested
\* timelines included
RECURSIVE FullyPlayed(_)
FullyPlayed(n) ==
    /\ calls[n].pc = "done"
    /\ calls[n].pos = Len(calls[n].items) + 1
    /\ \A i \in 1..Len(calls[n].items) :
          \E c \in Children(n) :
              /\ calls[c].idx = i
              /\ calls[c].obj = calls[n].items[i].id
              /\ calls[c].kind = (IF calls[n].items[i].kind = "timeline" THEN "play" ELSE "run")
              /\ calls[c].pc = "done"
              /\ calls[c].kind = "play" => FullyPlayed(c)

\* C2: when play() has begun an entry that comes after a nested timeline in
\* its queue, every entry of the nested timeline, at any depth, has run to
\* completion.
C2_NestedTimelineCompletesBeforeSibling ==
    \A n \in PlayIds, s \in CallIds :
        (calls[n].parent # 0 /\ calls[s].parent = calls[n].parent /\ calls[s].idx > calls[n].idx) =>
            FullyPlayed(n)

C2_Witness ==
    \E n \in PlayIds, s \in CallIds :
        /\ calls[n].parent # 0
        /\ calls[s].parent = calls[n].parent
        /\ calls[s].idx > calls[n].idx
        /\ \E c \in Children(n) : calls[c].kind = "run" /\ Has(calls[c].log, "removeClone")

\* C9: when an entry of a play() has failed, that play() starts no later
\* entry and never completes: it is still suspended on the failed entry or
\* has failed with the entry's failure, and so has every enclosing play().
C9_FailureAbortsPlay ==
    \A c \in CallIds :
        (calls[c].pc = "failed" /\ calls[c].parent # 0) =>
            LET p == calls[c].parent
            IN  /\ \A s \in Children(p) : calls[s].idx <= calls[c].idx
                /\ calls[p].pos = calls[c].idx
                /\ calls[p].child = c
                /\ calls[p].pc \in {"await", "failed"}
                /\ calls[p].pc = "failed" => calls[p].error = calls[c].error
                /\ calls[c].error.src \in RunIds
                /\ Root(calls[c].error.src) = Root(c)

C9_Witness ==
    \E c \in RunIds, p \in PlayIds, r \in PlayIds :
        /\ calls[c].pc = "failed"
        /\ calls[c].parent = p
        /\ calls[p].parent = r
        /\ calls[r].parent = 0
        /\ calls[r].pc = "failed"
        /\ calls[r].error = [what |-> calls[c].error.what, src |-> c]
        /\ Len(calls[p].items) > calls[c].idx
        /\ Len(calls[r].items) > calls[p].idx

\* C10: a play() called on a timeline whose last operation was clear(), after
\* add() calls, resolves at once and has run no entry.
C10_PlayAfterClearRunsNothing ==
    \A c \in PlayIds :
        calls[c].afterClear # Absent =>
            /\ calls[c].pc = "done"
            /\ calls[c].items = <<>>
            /\ Children(c) = {}

C10_Witness ==
    \E c \in PlayIds :
        /\ calls[c].afterClear # Absent
        /\ calls[c].afterClear[1] # <<>>
        /\ calls[c].parent = 0
        /\ calls[c].pc = "done"

\* the run has evaluated this.factories (motion.ts 95)
FactoriesEvaluated(c) ==
    /\ calls[c].pc # "before"
    /\ ~(calls[c].pc = "failed" /\ calls[c].error.what = "before")

\* C11: what a run() uses is what the Motion held when run() was called: the
\* factories it evaluates, the duration, delay and repeat count behind its
\* wait and its teardown decision, and the after-hook it invokes once the
\* wait is over, whatever setters were called while it was suspended.
C11_ConfigurationReadOnceAtStart ==
    \A c \in RunIds :
        /\ FactoriesEvaluated(c) => calls[c].factoriesRead = calls[c].cfgAtStart.factories
        /\ calls[c].cfgAtInsert # Absent =>
              /\ calls[c].cfgAtInsert[1].durationMs = calls[c].cfgAtStart.durationMs
              /\ calls[c].cfgAtInsert[1].delayMs = calls[c].cfgAtStart.delayMs
              /\ calls[c].cfgAtInsert[1].repeatCount = calls[c].cfgAtStart.repeatCount
              /\ calls[c].clone[1].animation.easing = calls[c].cfgAtStart.easingFn
              /\ calls[c].clone[1].animation.direction = calls[c].cfgAtStart.directionVal
        /\ (calls[c].cfgAtInsert # Absent /\ calls[c].pc \notin {"timer", "resolved"}) =>
              calls[c].hookAfter = calls[c].cfgAtStart.afterCallback

\* the run has built its keyframes, path and clone (motion.ts 98-115)
Inserted(c) == calls[c].cfgAtInsert # Absent

\* the naturals with the bits A and B: A <= B
BigLeq(A, B) ==
    LET n == IF Len(A) > Len(B) THEN Len(A) ELSE Len(B)
        a == Zeros(n - Len(A)) \o A
        b == Zeros(n - Len(B)) \o B
    IN  a = b \/ \E j \in 1..n : a[j] < b[j] /\ \A k \in 1..(j - 1) : a[k] = b[k]

\* p * d and the natural t, both counted in units of the last place of the
\* double p (2^p.exp, with p.exp <= 0)
TimesOnGrid(p, d) == MulAdd(p.mant, d, 0)

NaturalOnGrid(p, t) == IntBits(t) \o Zeros(0 - p.exp)

\* p * d = t in exact arithmetic
TimesIs(p, d, t) ==
    /\ ~p.nan
    /\ p.exp <= 0
    /\ TimesOnGrid(p, d) = StripZeros(NaturalOnGrid(p, t))

\* p * d differs from t by at most tol units of the last place of p
TimesIsWithin(p, d, t, tol) ==
    /\ ~p.nan
    /\ p.exp <= 0
    /\ BigLeq(TimesOnGrid(p, d), MulAdd(NaturalOnGrid(p, t), 1, tol))
    /\ BigLeq(NaturalOnGrid(p, t), MulAdd(TimesOnGrid(p, d), 1, tol))

\* C12 as claimed: for N >= 2 steps the keyframes hold one stop per step, in
\* step order: at the step's `at` if it has one, else at the percentage p
\* with p * (N - 1) = 100 * i for the step of 0-based index i; each stop sets
\* offset-distance to its own percentage.
C12_StopsExactlyEven ==
    \A c \in RunIds :
        (Inserted(c) /\ Len(calls[c].factoriesRead) >= 2) =>
            LET n == Len(calls[c].factoriesRead)
                frames == calls[c].keyframes
            IN  /\ Len(frames) = n
                /\ \A j \in 1..n :
                      LET at == calls[c].factoriesRead[j].at
                          p == frames[j].percent
                      IN  /\ at # Absent => TimesIs(p, 1, at[1])
                          /\ at = Absent => TimesIs(p, n - 1, 100 * (j - 1))
                          /\ frames[j].offsetDistance = p

\* C12 as amended: for N >= 2 steps the keyframes hold one stop per step, in
\* step order: at the step's `at` if it has one, else at a double p that is 0
\* for the first step, 100 for the last, and for the step of 0-based index i
\* has p * (N - 1) within 2 * (N - 1) units of p's last place of 100 * i;
\* each stop sets offset-distance to its own percentage.
C12_StopsEvenUpToRounding ==
    \A c \in RunIds :
        (Inserted(c) /\ Len(calls[c].factoriesRead) >= 2) =>
            LET n == Len(calls[c].factoriesRead)
                frames == calls[c].keyframes
            IN  /\ Len(frames) = n
                /\ \A j \in 1..n :
                      LET at == calls[c].factoriesRead[j].at
                          p == frames[j].percent
                      IN  /\ at # Absent => TimesIs(p, 1, at[1])
                          /\ at = Absent =>
                                /\ TimesIsWithin(p, n - 1, 100 * (j - 1), 2 * (n - 1))
                                /\ j = 1 => TimesIs(p, 1, 0)
                                /\ j = n => TimesIs(p, 1, 100)
                          /\ frames[j].offsetDistance = p

\* four steps, the second without `at`: its stop times 3 is not 100, and the
\* third step's `at` of 0 is kept
C12_Witness ==
    \E c \in RunIds :
        /\ Inserted(c)
        /\ Len(calls[c].factoriesRead) = 4
        /\ calls[c].factoriesRead[2].at = Absent
        /\ calls[c].factoriesRead[3].at = <<0>>
        /\ calls[c].factoriesRead[4].at = Absent
        /\ ~TimesIs(calls[c].keyframes[2].percent, 3, 100)
        /\ TimesIsWithin(calls[c].keyframes[2].percent, 3, 100, 6)
        /\ TimesIs(calls[c].keyframes[3].percent, 1, 0)
        /\ TimesIs(calls[c].keyframes[4].percent, 1, 100)

\* C13: the one stop of a Motion with exactly one step and no `at` is a
\* percentage in [0, 100], not the result of a division by zero.
C13_SingleStepStopIsValid ==
    \A c \in RunIds :
        (Inserted(c) /\ Len(calls[c].factoriesRead) = 1 /\ calls[c].factoriesRead[1].at = Absent) =>
            /\ Len(calls[c].keyframes) = 1
            /\ ~calls[c].keyframes[1].percent.nan
            /\ calls[c].keyframes[1].percent.exp <= 0
            /\ BigLeq(TimesOnGrid(calls[c].keyframes[1].percent, 1), NaturalOnGrid(calls[c].keyframes[1].percent, 100))

\* the point the first factory a run read returns for the rect it measured
FirstPoint(c) ==
    LET f == calls[c].factoriesRead[1]
        rect == getBoundingClientRect(calls[c].obj)
    IN  IF f.rel THEN <<rect.left + f.point[1], rect.top + f.point[2]>> ELSE f.point

\* C14 as claimed: the clone has the left, top, width and height of the
\* rectangle measured at the start of run(), whatever the factories return.
C14_CloneAtMeasuredRect ==
    \A c \in RunIds :
        Inserted(c) =>
            /\ calls[c].clone[1].left = getBoundingClientRect(calls[c].obj).left
            /\ calls[c].clone[1].top = getBoundingClientRect(calls[c].obj).top
            /\ calls[c].clone[1].width = getBoundingClientRect(calls[c].obj).width
            /\ calls[c].clone[1].height = getBoundingClientRect(calls[c].obj).height

\* C14 as amended: the clone has the left and top of the point the first
\* step factory returned and the width and height of the rectangle measured
\* at the start of run().
C14_CloneAtFirstStepPoint ==
    \A c \in RunIds :
        Inserted(c) =>
            /\ calls[c].clone[1].left = FirstPoint(c)[1]
            /\ calls[c].clone[1].top = FirstPoint(c)[2]
            /\ calls[c].clone[1].width = getBoundingClientRect(calls[c].obj).width
            /\ calls[c].clone[1].height = getBoundingClientRect(calls[c].obj).height
            /\ calls[c].rect = getBoundingClientRect(calls[c].obj)

C14_Witness ==
    \E c \in RunIds :
        /\ Inserted(c)
        /\ ~calls[c].factoriesRead[1].rel
        /\ calls[c].clone[1].left # calls[c].rect.left
        /\ calls[c].clone[1].width = calls[c].rect.width
        /\ c \in body

\* the point of step j of a run, relative to the point of its first step
RelativePoint(c, j) ==
    <<calls[c].steps[j].point[1] - calls[c].steps[1].point[1], calls[c].steps[j].point[2] - calls[c].steps[1].point[2]>>

\* the normalized point of 0-based index i, the last one for i >= N
Padded(c, i) ==
    IF i + 1 <= Len(calls[c].steps) THEN RelativePoint(c, i + 1) ELSE RelativePoint(c, Len(calls[c].steps))

\* C15: the path of one step is the origin and one line to the normalized
\* point; the path of N >= 2 steps is the origin and ceil(N/2) cubic
\* segments, segment k over the normalized points 2k, 2k+1, 2k+2, the last
\* point standing in for every index >= N; the first normalized point is
\* (0, 0).
C15_PathSegments ==
    \A c \in RunIds :
        Inserted(c) =>
            LET n == Len(calls[c].steps)
                path == calls[c].clone[1].offsetPath
            IN  /\ path[1] = [op |-> "M", args |-> <<<<0, 0>>>>]
                /\ RelativePoint(c, 1) = <<0, 0>>
                /\ n = 1 => path = <<path[1], [op |-> "L", args |-> <<RelativePoint(c, 1)>>]>>
                /\ n >= 2 =>
                      /\ Len(path) = 1 + ((n + 1) \div 2)
                      /\ \A k \in 0..(((n + 1) \div 2) - 1) :
                            path[k + 2] = [op |-> "C", args |-> <<Padded(c, 2 * k), Padded(c, 2 * k + 1), Padded(c, 2 * k + 2)>>]

C15_Witness ==
    \E c \in RunIds :
        /\ Inserted(c)
        /\ Len(calls[c].steps) = 4
        /\ Len(calls[c].clone[1].offsetPath) = 3
        /\ RelativePoint(c, 3) # RelativePoint(c, 4)
        /\ calls[c].clone[1].offsetPath[3].args = <<RelativePoint(c, 3), RelativePoint(c, 4), RelativePoint(c, 4)>>

\* C16: the run() calls of one Motion, overlapping or not, each read the
\* same configuration and each insert one clone and one style rule of their
\* own; a clone and its style rule stay in the document until the timer of
\* the call that made them fires, and are gone once it has.
C16_RunsAreIndependent ==
    /\ \A c \in RunIds :
          Inserted(c) =>
              /\ Count(calls[c].log, "clone") = 1 /\ Count(calls[c].log, "style") = 1
              /\ Count(calls[c].log, "removeClone") <= 1 /\ Count(calls[c].log, "removeStyle") <= 1
              /\ (InfiniteRun(c) \/ calls[c].pc = "timer") => (c \in body /\ c \in head)
              /\ (FiniteRun(c) /\ calls[c].pc # "timer") =>
                    (c \notin body /\ c \notin head /\ Has(calls[c].log, "removeClone") /\ Has(calls[c].log, "removeStyle"))
    /\ \A c \in RunIds, d \in RunIds :
          calls[c].obj = calls[d].obj =>
              /\ calls[c].cfgAtStart = calls[d].cfgAtStart
              /\ (Inserted(c) /\ Inserted(d)) =>
                    /\ calls[c].factoriesRead = calls[d].factoriesRead
                    /\ calls[c].cfgAtInsert = calls[d].cfgAtInsert
                    /\ calls[c].clone = calls[d].clone
                    /\ calls[c].keyframes = calls[d].keyframes
                    /\ calls[c].total = calls[d].total

\* two runs overlapped; the timer of the first has fired and the clone and
\* the style rule of the second are still in the document
C16_Witness ==
    \E c \in RunIds, d \in RunIds :
        /\ c < d
        /\ calls[c].obj = calls[d].obj
        /\ FiniteRun(c) /\ FiniteRun(d)
        /\ Has(calls[c].log, "removeClone")
        /\ calls[d].pc = "timer"
        /\ calls[d].waited > 0
        /\ d \in body /\ d \in head
        /\ c \notin body

\* the calls a play() made for the entry at position i of its array
ChildrenAt(p, i) == {c \in Children(p) : calls[c].idx = i}

\* the entries of play() p were begun in the order of their positions, each
\* for the entry its position holds, none before the one before it was done
InOrder(p) ==
    /\ \A c \in Children(p) :
          /\ calls[c].idx \in 1..Len(calls[p].items)
          /\ calls[c].obj = calls[p].items[calls[c].idx].id
          /\ calls[c].kind = (IF calls[p].items[calls[c].idx].kind = "timeline" THEN "play" ELSE "run")
    /\ \A a \in Children(p), b \in Children(p) :
          calls[a].idx < calls[b].idx => (a < b /\ calls[a].pc = "done")

\* C17: a clear() called while a play() is suspended on an entry does not
\* stop that play(): it goes on over the entries the queue held when clear()
\* was called, in their order, stops only at an entry that failed, and when
\* it resolves it has run every one of them.
C17_ClearDoesNotStopPlay ==
    \A p \in PlayIds :
        calls[p].atClear # Absent =>
            /\ calls[p].items = calls[p].atClear[1].items
            /\ calls[p].pos >= calls[p].atClear[1].pos
            /\ InOrder(p)
            /\ calls[p].pc \in {"await", "done", "failed"}
            /\ calls[p].pc = "failed" => calls[calls[p].child].pc = "failed"
            /\ calls[p].pc = "await" => calls[p].child \in ChildrenAt(p, calls[p].pos)
            /\ calls[p].pc = "done" => FullyPlayed(p)

\* clear() came while the play() was on its first entry, and the play() has
\* run the second entry too and resolved
C17_Witness ==
    \E p \in PlayIds :
        /\ calls[p].atClear # Absent
        /\ calls[p].atClear[1].pos = 1
        /\ Len(calls[p].atClear[1].items) = 2
        /\ queue[calls[p].obj] = <<>>
        /\ FullyPlayed(p)
        /\ \E c \in ChildrenAt(p, 2) : Has(calls[c].log, "insert")

\* C18: while a play() is suspended on an entry and no clear() has come since
\* it began, the array it iterates is the queue, so an entry that add()
\* appends meanwhile is one of its entries; it runs each entry once, after
\* all entries before it, and when it resolves it has run every one of them.
C18_AddedEntryIsPlayedOnce ==
    \A p \in PlayIds :
        calls[p].atClear = Absent =>
            /\ calls[p].pc = "await" => calls[p].items = queue[calls[p].obj]
            /\ Len(calls[p].items) >= calls[p].lenAtStart
            /\ InOrder(p)
            /\ \A i \in 1..Len(calls[p].items) : Cardinality(ChildrenAt(p, i)) <= 1
            /\ calls[p].pc = "done" =>
                  /\ FullyPlayed(p)
                  /\ \A i \in 1..Len(calls[p].items) : Cardinality(ChildrenAt(p, i)) = 1

\* an entry was appended while the play() was suspended on an earlier entry,
\* and the play() has run it and resolved
C18_Witness ==
    \E p \in PlayIds :
        /\ calls[p].atClear = Absent
        /\ calls[p].lenAtStart = 1
        /\ Len(calls[p].items) = 2
        /\ FullyPlayed(p)
        /\ \E a \in ChildrenAt(p, 1), b \in ChildrenAt(p, 2) :
              /\ Has(calls[a].log, "timer")
              /\ Has(calls[b].log, "measure")

\* C19: a Motion entry with an infinite repeat count never waits for a
\* timer; its clone and its style rule stay in the document from then on;
\* and the play() has begun the next entry only when the run() of the
\* infinite Motion has resolved, after-hook included.
C19_InfiniteEntryDoesNotBlock ==
    \A c \in RunIds :
        (calls[c].parent # 0 /\ InfiniteRun(c)) =>
            /\ calls[c].pc \in {"after", "done"}
            /\ ~Has(calls[c].log, "timer")
            /\ c \in body /\ c \in head
            /\ calls[c].pc = "after" => calls[c].hookAfter # NoHook
            /\ (calls[c].pc = "done" /\ calls[c].hookAfter # NoHook) => Has(calls[c].log, "after")
            /\ \A s \in Children(calls[c].parent) : calls[s].idx > calls[c].idx => calls[c].pc = "done"

\* the play() went on past an infinite Motion with an after-hook and has
\* resolved; the clone and the style rule are still there
C19_Witness ==
    \E c \in RunIds, s \in RunIds :
        /\ calls[c].parent # 0
        /\ InfiniteRun(c)
        /\ calls[c].hookAfter = "ok"
        /\ calls[s].parent = calls[c].parent
        /\ calls[s].idx = calls[c].idx + 1
        /\ Has(calls[s].log, "insert")
        /\ FullyPlayed(calls[c].parent)
        /\ c \in body /\ c \in head

\* play() p has run every entry of its array, at any depth, exactly once
RECURSIVE PlayedOnce(_)
PlayedOnce(p) ==
    /\ FullyPlayed(p)
    /\ InOrder(p)
    /\ \A i \in 1..Len(calls[p].items) : Cardinality(ChildrenAt(p, i)) = 1
    /\ \A c \in Children(p) : calls[c].kind = "play" => PlayedOnce(c)

\* C20: on timelines without cycles that are not extended during play, over
\* Motions whose hooks complete and whose timers fire, whenever a play() that
\* user code called has not resolved, a state follows in which every such
\* play() has resolved, having run each entry of its queue, and of the nested
\* ones, exactly once per occurrence.
C20_PlayEventuallyCompletes ==
    (\E p \in PlayIds : calls[p].parent = 0 /\ calls[p].pc # "done")
        ~> (\A p \in PlayIds : calls[p].parent = 0 => PlayedOnce(p))

\* a play() over a nested timeline and a Motion has resolved
C20_Witness ==
    \E p \in PlayIds :
        /\ calls[p].parent = 0
        /\ Len(calls[p].items) = 2
        /\ calls[p].items[1].kind = "timeline"
        /\ calls[p].items[2].kind = "motion"
        /\ PlayedOnce(p)
        /\ \E n \in ChildrenAt(p, 1) : Len(calls[n].items) = 1 /\ \E r \in ChildrenAt(n, 1) : Has(calls[r].log, "removeClone")

====
